---- MODULE Spec2Model ----
(***************************************************************************)
(* Model of mongo.BuildUpdateSet (src/mongo/utils.go), the reflection      *)
(* driven builder of partial-update documents.                             *)
(*                                                                         *)
(* Strings are sequences of one-character strings, so that strings.Split   *)
(* and strings.ToLower are computed character by character.  A Go value    *)
(* handed to BuildUpdateSet is a record                                    *)
(*    [ptr    |-> number of pointer levels in front of the target,         *)
(*     target |-> the kind of the target, "nil" when the innermost         *)
(*                pointer (or the interface itself, ptr = 0) is nil,       *)
(*     decl   |-> the struct type's fields: [name, tag],                   *)
(*     vals   |-> the struct value's field values]                         *)
(* and a field value is [t |-> kind, isnil |-> BOOLEAN, e |-> elements].   *)
(***************************************************************************)
EXTENDS Integers, Sequences, FiniteSets, TLC

VARIABLES
    data,       \* the caller's argument (and the object it points to)
    pc,         \* position inside BuildUpdateSet
    setValue,   \* local: reflect.ValueOf(data), then its Elem()
    setType,    \* local: reflect.TypeOf(data), then its Elem()
    i,          \* local: loop index
    setFields,  \* local: bson.M being filled
    update,     \* local: bson.M returned
    recorded,   \* field indexes for which line 93 was executed
    fault,      \* a runtime panic happened
    calls,      \* number of invocations started by the caller
    prev,       \* result of the previous invocation
    modified,   \* the caller changed the input since the previous invocation
    callers,    \* concurrent invocations of BuildUpdateSet, one record each
    pg,         \* an invocation of FindWithPagination and the collection it reads
    ins,        \* an invocation of InsertOne, or the hooks, and the document
    updCall,    \* an invocation of UpdateOne/UpdateMany/UpdateByID
    txn,        \* an invocation of WithTransaction/WithSession and its session
    idx         \* an invocation of CreateAllDocumentIndexes and the indexes

\* the state of the other operations, which BuildUpdateSet never touches
others == <<callers, pg, ins, updCall, txn, idx>>

vars == <<data, pc, setValue, setType, i, setFields, update, recorded, fault,
          calls, prev, modified, callers, pg, ins, updCall, txn, idx>>

-----------------------------------------------------------------------------
(* Bounds *)

MaxFields == 2
MaxPtrDepth == 2
MaxCalls == 2

-----------------------------------------------------------------------------
(* Strings *)

Comma == ","
OMITEMPTY == <<"o","m","i","t","e","m","p","t","y">>
IdKey == <<"_","i","d">>
DashTag == <<"-">>
EmptyStr == <<>>
SetKey == "$set"

\* unicode.ToLower on the letters the model's identifiers use
ToLowerChar(c) ==
    CASE c = "I" -> "i"
      [] c = "D" -> "d"
      [] c = "N" -> "n"
      [] c = "B" -> "b"
      [] c = "U" -> "u"
      [] c = "C" -> "c"
      [] c = "A" -> "a"
      [] OTHER -> c

\* strings.ToLower
ToLower(s) == [k \in 1..Len(s) |-> ToLowerChar(s[k])]

IsUpperChar(c) == c \in {"I", "D", "N", "B", "U", "C", "A"}

\* index of the first separator in s, 0 when there is none
IndexOf(s, sep) ==
    IF \E k \in 1..Len(s) : s[k] = sep
    THEN CHOOSE k \in 1..Len(s) : s[k] = sep /\ \A j \in 1..(k-1) : s[j] # sep
    ELSE 0

RECURSIVE Split(_, _)
\* strings.Split(s, sep) for a one-character sep: always at least one part
Split(s, sep) ==
    LET k == IndexOf(s, sep) IN
    IF k = 0 THEN <<s>>
    ELSE <<SubSeq(s, 1, k-1)>> \o Split(SubSeq(s, k+1, Len(s)), sep)

\* mutant: only the first element is compared
contains_FirstOnly(slice, item) == Len(slice) > 0 /\ slice[1] = item

\* contains (utils.go): linear search
contains(slice, item) == \E k \in 1..Len(slice) : slice[k] = item

\* slice[1:] of Go
Tail1(slice) == SubSeq(slice, 2, Len(slice))

-----------------------------------------------------------------------------
(* Values and reflection *)

EmptyM == [k \in {} |-> 0]

\* mutant: emptiness by length, as len(x) == 0 would test it
IsZero_ByLength(v) ==
    CASE v.t \in {"String", "Slice", "Map"} -> Len(v.e) = 0
      [] v.t \in {"Int", "Bool"} -> v.e[1] = 0
      [] v.t = "Ptr" -> v.isnil
      [] v.t \in {"Struct", "Array"} -> \A k \in 1..Len(v.e) : v.e[k] = 0

\* reflect.Value.IsZero, by kind
IsZero(v) ==
    CASE v.t = "String" -> Len(v.e) = 0
      [] v.t \in {"Int", "Bool"} -> v.e[1] = 0
      [] v.t \in {"Slice", "Map", "Ptr"} -> v.isnil
      [] v.t \in {"Struct", "Array"} -> \A k \in 1..Len(v.e) : v.e[k] = 0

\* reflect.Value.Kind
Kind(v) ==
    IF v.ptr > 0 THEN "Ptr"
    ELSE IF v.target = "nil" THEN "Invalid"
    ELSE v.target

\* reflect.Value.Elem on a pointer: the zero Value when the pointer is nil
Elem(v) == [v EXCEPT !.ptr = v.ptr - 1]

\* reflect.ValueOf
ValueOf(d) == [ptr |-> d.ptr, target |-> d.target, vals |-> d.vals]

\* reflect.TypeOf: nil for a nil interface
TypeOf(d) ==
    [isNil |-> (d.ptr = 0 /\ d.target = "nil"), ptr |-> d.ptr, decl |-> d.decl]

\* reflect.Type.Elem
TypeElem(t) == [t EXCEPT !.ptr = t.ptr - 1]

\* reflect.Value.NumField
NumField(v) == Len(v.vals)

\* mutant: every field is taken for exported
CanInterface_Always(fieldType) == TRUE

\* reflect.Value.CanInterface of a struct's field: the field is exported
CanInterface(fieldType) ==
    Len(fieldType.name) > 0 /\ IsUpperChar(fieldType.name[1])

-----------------------------------------------------------------------------
(* The loop body of BuildUpdateSet, one operator per test of the code *)

\* mutant: the suppressing tag "-" is not tested
TagSkips_OnlyEmpty(bsonTag) == bsonTag = EmptyStr

\* line 72: no bson tag, or the tag is exactly "-"
TagSkips(bsonTag) == bsonTag = EmptyStr \/ bsonTag = DashTag

\* mutant: the fallback keeps the identifier's case
FieldName_NoLower(tagParts, fieldType) ==
    IF tagParts[1] = EmptyStr THEN fieldType.name ELSE tagParts[1]

\* mutant: a dotted primary name is cut at its first dot
FieldName_CutsAtDot(tagParts, fieldType) ==
    IF tagParts[1] = EmptyStr
    THEN ToLower(fieldType.name)
    ELSE Split(tagParts[1], ".")[1]

\* lines 77-81: the primary name, or the lower-cased identifier when empty
FieldName(tagParts, fieldType) ==
    IF tagParts[1] = EmptyStr THEN ToLower(fieldType.name) ELSE tagParts[1]

\* mutant: omitempty skips the field whatever its value
OmitEmptySkips_NoZeroTest(tagParts, field) ==
    /\ Len(tagParts) > 1
    /\ contains(Tail1(tagParts), OMITEMPTY)

\* line 84: omitempty among the modifiers and the value is zero
OmitEmptySkips(tagParts, field) ==
    /\ Len(tagParts) > 1
    /\ contains(Tail1(tagParts), OMITEMPTY)
    /\ IsZero(field)

\* mutant: the identity key is spelled without its underscore
IsIdField_WrongKey(fieldName) == fieldName = <<"i", "d">>

\* line 89
IsIdField(fieldName) == fieldName = IdKey

\* lines 62-91: the body reaches line 93 for this field
Records(field, fieldType) ==
    /\ CanInterface(fieldType)
    /\ ~TagSkips(fieldType.tag)
    /\ LET tagParts == Split(fieldType.tag, Comma) IN
         /\ ~OmitEmptySkips(tagParts, field)
         /\ ~IsIdField(FieldName(tagParts, fieldType))

\* mutant: an entry already present is kept
Put_KeepsFirst(m, key, value) == m @@ (key :> value)

\* line 93: setFields[fieldName] = field.Interface()
Put(m, key, value) == (key :> value) @@ m

\* mutant: the pointer is not followed
DerefValue_None(v) == v

\* lines 50-54, the value: one dereference of a pointer
DerefValue(v) == IF Kind(v) = "Ptr" THEN Elem(v) ELSE v

\* lines 50-54, the type
DerefType(v, t) == IF Kind(v) = "Ptr" THEN TypeElem(t) ELSE t

\* mutant: the invalid Value of a nil input is let through to NumField
ReturnsEarly_ForgetsInvalid(v) == Kind(v) \notin {"Struct", "Invalid"}

\* mutant: only the invalid Value returns early
ReturnsEarly_OnlyInvalid(v) == Kind(v) = "Invalid"

\* line 56
ReturnsEarly(v) == Kind(v) # "Struct"

\* mutant: the builder stamps updated_at, as UpdateOne does
Wrap_Stamps(upd, sf) ==
    IF Cardinality(DOMAIN sf) > 0
    THEN Put(upd, SetKey,
             Put(sf, <<"u", "p", "d", "a", "t", "e", "d", "_", "a", "t">>,
                 [t |-> "Struct", isnil |-> FALSE, e |-> <<1, 0, 0>>]))
    ELSE upd

\* mutant: "$set" is added without the length test
Wrap_Always(upd, sf) == Put(upd, SetKey, sf)

\* lines 96-100
Wrap(upd, sf) ==
    IF Cardinality(DOMAIN sf) > 0 THEN Put(upd, SetKey, sf) ELSE upd

-----------------------------------------------------------------------------
(* Inputs *)

NameID == <<"I","D">>
NameName == <<"N","a","m","e">>
NamePw == <<"p","w">>
Names == {NameID, NameName, NamePw}

TagName == <<"n","a","m","e">>
TagIdOmit == IdKey \o <<Comma>> \o OMITEMPTY
TagNameOmit == TagName \o <<Comma>> \o OMITEMPTY
TagOmit == <<Comma>> \o OMITEMPTY
TagInline == <<Comma, "i", "n", "l", "i", "n", "e">>
Tags ==
    {EmptyStr, DashTag, IdKey, TagIdOmit, TagName, TagNameOmit, TagOmit,
     TagInline}

NameBio == <<"B", "i", "o">>
NameCreatedAt == <<"C", "r", "e", "a", "t", "e", "d", "A", "t">>
NameUpdatedAt == <<"U", "p", "d", "a", "t", "e", "d", "A", "t">>

TagUsername == <<"u", "s", "e", "r", "n", "a", "m", "e">>
TagBioOmit == <<"p", "r", "o", "f", "i", "l", "e", ".", "b", "i", "o">> \o <<Comma>> \o OMITEMPTY
TagCreatedAt == <<"c", "r", "e", "a", "t", "e", "d", "_", "a", "t">>
TagUpdatedAt == <<"u", "p", "d", "a", "t", "e", "d", "_", "a", "t">>
TagUpdatedAtOmit == TagUpdatedAt \o <<Comma>> \o OMITEMPTY
TagNameX == TagName \o <<Comma, "x">>
TagNameXOmit == TagName \o <<Comma, "x", Comma>> \o OMITEMPTY
TagDashOmit == DashTag \o <<Comma>> \o OMITEMPTY

\* "alice" and "hello", by letter number
StrAlice == [t |-> "String", isnil |-> FALSE, e |-> <<1, 12, 9, 3, 5>>]
StrHello == [t |-> "String", isnil |-> FALSE, e |-> <<8, 5, 12, 12, 15>>]
\* time.Time is a struct of wall, ext and loc
TimeZero == [t |-> "Struct", isnil |-> FALSE, e |-> <<0, 0, 0>>]
TimeSet == [t |-> "Struct", isnil |-> FALSE, e |-> <<1, 0, 0>>]

StrEmpty == [t |-> "String", isnil |-> FALSE, e |-> <<>>]
StrA == [t |-> "String", isnil |-> FALSE, e |-> <<1>>]
SliceNil == [t |-> "Slice", isnil |-> TRUE, e |-> <<>>]
SliceEmpty == [t |-> "Slice", isnil |-> FALSE, e |-> <<>>]
Values == {StrEmpty, StrA, SliceEmpty}

Decls == [name : Names, tag : Tags]

\* Go rejects a struct type that declares one field name twice
DistinctNames(decl) ==
    \A a, b \in 1..Len(decl) : a # b => decl[a].name # decl[b].name

\* pointer chains longer than one are tried on structs of at most one field
PtrDepths(n) == IF n <= 1 THEN 0..MaxPtrDepth ELSE 0..1

StructInputUpTo(d, decls, values, most) ==
    \E n \in 0..most :
      \E decl \in [1..n -> decls] :
        /\ DistinctNames(decl)
        /\ \E vals \in [1..n -> values] :
             \E p \in PtrDepths(n) :
               d = [ptr |-> p, target |-> "Struct", decl |-> decl, vals |-> vals]

StructInput(d, decls, values) == StructInputUpTo(d, decls, values, MaxFields)

NonStructKinds == {"nil", "Int", "String", "Slice", "Array", "Map"}

NonStructs ==
    {[ptr |-> p, target |-> k, decl |-> <<>>, vals |-> <<>>] :
        p \in 0..MaxPtrDepth, k \in NonStructKinds}

NoValue == [ptr |-> 0, target |-> "nil", vals |-> <<>>]
NoType == [isNil |-> TRUE, ptr |-> 0, decl |-> <<>>]
NoPrev == [res |-> EmptyM, same |-> FALSE, rel |-> "none"]

\* no other operation is in progress
NoCallers == <<>>
NoPg == [pc |-> "none"]
NoIns == [pc |-> "none"]
NoUpd == [pc |-> "none"]
NoTxn == [pc |-> "none"]
NoIdx == [pc |-> "none"]

OthersIdle ==
    /\ callers = NoCallers
    /\ pg = NoPg
    /\ ins = NoIns
    /\ updCall = NoUpd

AuxIdle ==
    /\ txn = NoTxn
    /\ idx = NoIdx

-----------------------------------------------------------------------------
(* One invocation of BuildUpdateSet *)

SeqIdle ==
    /\ pc = "idle"
    /\ setValue = NoValue
    /\ setType = NoType
    /\ i = 0
    /\ setFields = EmptyM
    /\ update = EmptyM
    /\ recorded = {}
    /\ fault = FALSE
    /\ calls = 0
    /\ prev = NoPrev
    /\ modified = FALSE

Idle == SeqIdle /\ OthersIdle /\ AuxIdle

Init ==
    /\ \/ data \in NonStructs
       \/ StructInput(data, Decls, Values)
    /\ Idle

\* lines 45-48, for the argument d
EnterWith(d) ==
    /\ update' = EmptyM
    /\ setValue' = ValueOf(d)
    /\ setType' = TypeOf(d)
    /\ setFields' = EmptyM
    /\ i' = 0
    /\ recorded' = {}
    /\ pc' = "entry"
    /\ calls' = calls + 1
    /\ UNCHANGED fault
    /\ UNCHANGED others

\* lines 45-48
Enter == EnterWith(data) /\ UNCHANGED data

Call ==
    /\ pc = "idle"
    /\ Enter
    /\ UNCHANGED <<prev, modified>>

\* lines 50-54
Deref ==
    /\ pc = "entry"
    /\ IF Kind(setValue) = "Ptr" /\ setType.isNil
       THEN /\ fault' = TRUE
            /\ pc' = "panic"
            /\ UNCHANGED <<setValue, setType>>
       ELSE /\ setValue' = DerefValue(setValue)
            /\ setType' = DerefType(setValue, setType)
            /\ pc' = "check"
            /\ UNCHANGED fault
    /\ UNCHANGED <<data, i, setFields, update, recorded, calls, prev, modified>>
    /\ UNCHANGED others

\* lines 56-61: return the empty update, or start the loop (NumField panics
\* on a value that is no struct)
CheckKind ==
    /\ pc = "check"
    /\ IF ReturnsEarly(setValue)
       THEN pc' = "done" /\ UNCHANGED fault
       ELSE IF Kind(setValue) # "Struct"
            THEN pc' = "panic" /\ fault' = TRUE
            ELSE pc' = "loop" /\ UNCHANGED fault
    /\ UNCHANGED <<data, setValue, setType, i, setFields, update, recorded,
                   calls, prev, modified>>
    /\ UNCHANGED others

\* lines 61-94: one iteration, as far as the locals go
LoopIter ==
    /\ pc = "loop"
    /\ i < NumField(setValue)
    /\ LET field == setValue.vals[i + 1]
           fieldType == setType.decl[i + 1]
       IN  IF Records(field, fieldType)
           THEN /\ setFields' =
                      Put(setFields,
                          FieldName(Split(fieldType.tag, Comma), fieldType),
                          field)
                /\ recorded' = recorded \cup {i + 1}
           ELSE UNCHANGED <<setFields, recorded>>
    /\ i' = i + 1
    /\ UNCHANGED <<pc, setValue, setType, update, fault, calls, prev,
                   modified>>
    /\ UNCHANGED others

ZeroOf(v) ==
    [t |-> v.t, isnil |-> (v.t \in {"Slice", "Map", "Ptr"}), e |-> <<>>]

\* mutant: a recorded field is reset through the pointer the caller passed
LoopStep_ClearsField ==
    /\ LoopIter
    /\ data' = IF data.ptr = 1 /\ (i + 1) \in recorded'
               THEN [data EXCEPT !.vals[i + 1] = ZeroOf(data.vals[i + 1])]
               ELSE data

\* lines 61-94: one iteration; the input is only read
LoopStep == LoopIter /\ UNCHANGED data

\* lines 96-100
Finish ==
    /\ pc = "loop"
    /\ i >= NumField(setValue)
    /\ update' = Wrap(update, setFields)
    /\ pc' = "done"
    /\ UNCHANGED <<data, setValue, setType, i, setFields, recorded, fault,
                   calls, prev, modified>>
    /\ UNCHANGED others

Next == Call \/ Deref \/ CheckKind \/ LoopStep \/ Finish

Spec == Init /\ [][Next]_vars

-----------------------------------------------------------------------------
(* The caller invokes BuildUpdateSet repeatedly on one record, which it may  *)
(* change between two invocations.                                          *)

TwiceTags == {IdKey, TagName, TagNameOmit}
TwiceValues == {StrEmpty, StrA}
TwiceDecls == [name : Names, tag : TwiceTags]

InitTwice ==
    /\ \/ data \in NonStructs
       \/ StructInput(data, TwiceDecls, TwiceValues)
    /\ Idle

\* the caller assigns one field of its record, after a return
Modify ==
    /\ pc = "done"
    /\ calls < MaxCalls
    /\ ~modified
    /\ \E k \in 1..Len(data.vals) :
         \E v \in TwiceValues :
           /\ v # data.vals[k]
           /\ data' = [data EXCEPT !.vals[k] = v]
    /\ modified' = TRUE
    /\ UNCHANGED <<pc, setValue, setType, i, setFields, update, recorded,
                   fault, calls, prev>>
    /\ UNCHANGED others

\* the caller keeps the mapping returned and invokes BuildUpdateSet again
CallAgain ==
    /\ pc = "done"
    /\ calls < MaxCalls
    /\ prev' = [res |-> update, same |-> ~modified, rel |-> "again"]
    /\ modified' = FALSE
    /\ Enter

NextTwice == Next \/ Modify \/ CallAgain

SpecTwice == InitTwice /\ [][NextTwice]_vars

-----------------------------------------------------------------------------
(* Vocabulary of the claims: what the tags, names and values of the input   *)
(* pools mean, written out as tables                                        *)

Returned == pc = "done"

\* the input is a struct, or a pointer to one
StructGiven == data.target = "Struct" /\ data.ptr <= 1

FieldIdx == 1..Len(data.decl)

SetOf(u) == IF SetKey \in DOMAIN u THEN u[SetKey] ELSE EmptyM

Exported(d) ==
    d.name \in {NameID, NameName, NameBio, NameCreatedAt, NameUpdatedAt}

\* (a) a bson tag is declared, and it is not the suppressing tag
Tagged(d) == d.tag # <<>> /\ d.tag # <<"-">>

MarkedOmitEmpty(d) ==
    d.tag \in {TagIdOmit, TagNameOmit, TagOmit, TagBioOmit, TagUpdatedAtOmit,
               TagNameXOmit, TagDashOmit}

ZeroValued(v) == v \in {StrEmpty, SliceNil, TimeZero}

PrimaryOf(tag) ==
    CASE tag \in {IdKey, TagIdOmit} -> <<"_", "i", "d">>
      [] tag \in {TagName, TagNameOmit, TagNameX, TagNameXOmit} ->
           <<"n", "a", "m", "e">>
      [] tag \in {DashTag, TagDashOmit} -> <<"-">>
      [] tag = TagUsername -> <<"u", "s", "e", "r", "n", "a", "m", "e">>
      [] tag = TagBioOmit -> <<"p", "r", "o", "f", "i", "l", "e", ".", "b", "i", "o">>
      [] tag = TagCreatedAt -> <<"c", "r", "e", "a", "t", "e", "d", "_", "a", "t">>
      [] tag \in {TagUpdatedAt, TagUpdatedAtOmit} -> <<"u", "p", "d", "a", "t", "e", "d", "_", "a", "t">>
      [] OTHER -> <<>>

LowerOf(name) ==
    CASE name = NameID -> <<"i", "d">>
      [] name = NameName -> <<"n", "a", "m", "e">>
      [] name = NamePw -> <<"p", "w">>
      [] name = NameBio -> <<"b", "i", "o">>
      [] name = NameCreatedAt -> <<"c", "r", "e", "a", "t", "e", "d", "a", "t">>
      [] name = NameUpdatedAt -> <<"u", "p", "d", "a", "t", "e", "d", "a", "t">>

ExternalName(d) ==
    IF PrimaryOf(d.tag) = <<>> THEN LowerOf(d.name) ELSE PrimaryOf(d.tag)

\* (b) not: omitempty with a zero value
NotOmitted(k) == ~(MarkedOmitEmpty(data.decl[k]) /\ ZeroValued(data.vals[k]))

Qualifies(k) ==
    /\ Exported(data.decl[k])
    /\ Tagged(data.decl[k])
    /\ NotOmitted(k)
    /\ ExternalName(data.decl[k]) # <<"_", "i", "d">>

\* the last qualifying field, in declaration order, that resolves to name n
LastFor(n) ==
    CHOOSE k \in FieldIdx :
      /\ Qualifies(k) /\ ExternalName(data.decl[k]) = n
      /\ \A j \in FieldIdx :
           Qualifies(j) /\ ExternalName(data.decl[j]) = n => j <= k

-----------------------------------------------------------------------------
(* C1 *)

\* C1 as stated: for a struct input, every field's external name is under
\* "$set" iff (a) its bson tag is non-empty and not "-" and (b) it is not
\* omitempty with a zero value.
C1_AsStated ==
    (Returned /\ StructGiven) =>
      \A k \in FieldIdx :
        (ExternalName(data.decl[k]) \in DOMAIN SetOf(update))
          <=> (Tagged(data.decl[k]) /\ NotOmitted(k))

\* C1 amended: for a struct input, a name is under "$set" iff it is not
\* "_id" and some exported field resolving to it satisfies (a) and (b).
C1_NameIffQualifies ==
    (Returned /\ StructGiven) =>
      /\ \A n \in DOMAIN SetOf(update) :
           \E k \in FieldIdx : Qualifies(k) /\ ExternalName(data.decl[k]) = n
      /\ \A k \in FieldIdx :
           Qualifies(k) => ExternalName(data.decl[k]) \in DOMAIN SetOf(update)

C1_Witness ==
    /\ Returned /\ StructGiven
    /\ \E k, j \in FieldIdx :
         /\ Qualifies(k)
         /\ Tagged(data.decl[j]) /\ Exported(data.decl[j]) /\ ~NotOmitted(j)
         /\ ExternalName(data.decl[j]) # ExternalName(data.decl[k])

-----------------------------------------------------------------------------
(* C2 *)

\* C2: the mapping under "$set" never has the key "_id"; a field resolving
\* to "_id" is skipped whatever its value and modifiers.
C2_NoIdentityEntry ==
    /\ <<"_", "i", "d">> \notin DOMAIN setFields
    /\ <<"_", "i", "d">> \notin DOMAIN SetOf(update)
    /\ \A k \in recorded : ExternalName(data.decl[k]) # <<"_", "i", "d">>

C2_Witness ==
    /\ Returned /\ StructGiven
    /\ SetKey \in DOMAIN update
    /\ \E k \in FieldIdx :
         /\ data.decl[k].tag = IdKey
         /\ Exported(data.decl[k])
         /\ data.vals[k] = StrA

-----------------------------------------------------------------------------
(* C3 *)

\* C3: the result has no key but "$set"; "$set" is present exactly when a
\* field was recorded, is never mapped to an empty mapping, and a struct
\* without tagged fields yields the empty mapping.
C3_OnlySetWhenRecorded ==
    Returned =>
      /\ DOMAIN update \subseteq {SetKey}
      /\ (SetKey \in DOMAIN update) <=> (recorded # {})
      /\ (SetKey \in DOMAIN update) => (DOMAIN update[SetKey] # {})
      /\ (\A k \in FieldIdx : ~Qualifies(k)) => update = EmptyM
      /\ (\A k \in FieldIdx : ~Tagged(data.decl[k])) => update = EmptyM

C3_Witness ==
    /\ Returned /\ StructGiven
    /\ Len(data.decl) = MaxFields
    /\ \A k \in FieldIdx : Tagged(data.decl[k]) /\ ~Qualifies(k)
    /\ update = EmptyM

-----------------------------------------------------------------------------
(* C4 *)

\* C4 as stated: every tagged, non-zero field whose external name is not
\* "_id" makes the result hold "$set" with that name mapped to that
\* field's value.
C4_AsStated ==
    (Returned /\ StructGiven) =>
      \A k \in FieldIdx :
        (/\ Tagged(data.decl[k])
         /\ ~ZeroValued(data.vals[k])
         /\ ExternalName(data.decl[k]) # <<"_", "i", "d">>)
        => /\ SetKey \in DOMAIN update
           /\ ExternalName(data.decl[k]) \in DOMAIN SetOf(update)
           /\ SetOf(update)[ExternalName(data.decl[k])] = data.vals[k]

\* C4 amended: every exported, tagged, non-zero field whose external name
\* is not "_id" makes the result hold "$set" with that name mapped to the
\* value of the last qualifying field that resolves to the name.
C4_NonZeroFieldIsSet ==
    (Returned /\ StructGiven) =>
      \A k \in FieldIdx :
        (/\ Exported(data.decl[k])
         /\ Tagged(data.decl[k])
         /\ ~ZeroValued(data.vals[k])
         /\ ExternalName(data.decl[k]) # <<"_", "i", "d">>)
        => /\ SetKey \in DOMAIN update
           /\ ExternalName(data.decl[k]) \in DOMAIN SetOf(update)
           /\ SetOf(update)[ExternalName(data.decl[k])] =
                data.vals[LastFor(ExternalName(data.decl[k]))]

C4_Witness ==
    /\ Returned /\ StructGiven
    /\ \E k \in FieldIdx :
         /\ Exported(data.decl[k])
         /\ MarkedOmitEmpty(data.decl[k])
         /\ data.vals[k] = StrA
         /\ ExternalName(data.decl[k]) \in DOMAIN SetOf(update)
         /\ SetOf(update)[ExternalName(data.decl[k])] = StrA

-----------------------------------------------------------------------------
(* C5 *)

\* C5: an absent target (nil pointer, nil interface) yields the empty
\* mapping, and the invocation neither panics nor stops short of returning.
C5_NilYieldsEmpty ==
    (data.target = "nil") =>
      /\ ~fault
      /\ pc \notin {"panic", "loop"}
      /\ Returned => update = EmptyM
      /\ Returned \/ ENABLED Next

C5_Witness ==
    /\ Returned
    /\ data.target = "nil" /\ data.ptr = 1
    /\ update = EmptyM

-----------------------------------------------------------------------------
(* C6 *)

\* the input is not a struct after one dereference, and is not absent
NotStructAfterDeref ==
    \/ data.target \notin {"Struct", "nil"}
    \/ data.target = "Struct" /\ data.ptr >= 2

\* C6: a value that is no struct after one dereference yields the empty
\* mapping, no field is considered, and nothing panics.
C6_NonStructYieldsEmpty ==
    NotStructAfterDeref =>
      /\ ~fault
      /\ pc \notin {"panic", "loop"}
      /\ recorded = {} /\ setFields = EmptyM /\ i = 0
      /\ Returned => update = EmptyM
      /\ Returned \/ ENABLED Next

C6_Witness ==
    /\ Returned
    /\ data.target = "Map" /\ data.ptr = 1
    /\ update = EmptyM

-----------------------------------------------------------------------------
(* C7 *)

EmptyPrimary(d) == d.tag \in {TagOmit, TagInline}

\* C7: a recorded field whose tag has an empty primary name and modifiers
\* is recorded under the lower-cased identifier; a field tagged exactly "-"
\* is never recorded and contributes no entry.
C7_NameResolution ==
    (Returned /\ StructGiven) =>
      \A k \in FieldIdx :
        /\ (EmptyPrimary(data.decl[k]) /\ Exported(data.decl[k]) /\ NotOmitted(k))
           => /\ k \in recorded
              /\ LowerOf(data.decl[k].name) \in DOMAIN SetOf(update)
              /\ SetOf(update)[LowerOf(data.decl[k].name)] =
                   data.vals[LastFor(LowerOf(data.decl[k].name))]
        /\ (EmptyPrimary(data.decl[k]) /\ k \in recorded)
           => LowerOf(data.decl[k].name) \in DOMAIN SetOf(update)
        /\ (data.decl[k].tag = <<"-">>)
           => /\ k \notin recorded
              /\ (<<"-">> \in DOMAIN SetOf(update))
                 => \E j \in FieldIdx \ {k} :
                      Qualifies(j) /\ ExternalName(data.decl[j]) = <<"-">>

C7_Witness ==
    /\ Returned /\ StructGiven
    /\ \E k, j \in FieldIdx :
         /\ data.decl[k] = [name |-> NameID, tag |-> TagOmit]
         /\ data.vals[k] = StrA
         /\ <<"i", "d">> \in DOMAIN SetOf(update)
         /\ SetOf(update)[<<"i", "d">>] = StrA
         /\ data.decl[j].tag = DashTag
         /\ Exported(data.decl[j])
         /\ data.vals[j] = StrA

-----------------------------------------------------------------------------
(* C8 *)

\* C8 as stated: a tagged omitempty field is omitted exactly when its value
\* is zero, a tagged field without omitempty is recorded even when zero, and
\* a struct whose tagged fields are all omitempty and zero yields the empty
\* mapping.
C8_AsStated ==
    (Returned /\ StructGiven) =>
      /\ \A k \in FieldIdx :
           Tagged(data.decl[k]) =>
             IF MarkedOmitEmpty(data.decl[k])
             THEN (k \notin recorded) <=> ZeroValued(data.vals[k])
             ELSE k \in recorded
      /\ (\A k \in FieldIdx : Tagged(data.decl[k]) => ~NotOmitted(k))
           => update = EmptyM

\* C8 amended: the same, for the exported tagged fields whose external name
\* is not "_id".
C8_OmitEmptyExactlyWhenZero ==
    (Returned /\ StructGiven) =>
      /\ \A k \in FieldIdx :
           (/\ Tagged(data.decl[k])
            /\ Exported(data.decl[k])
            /\ ExternalName(data.decl[k]) # <<"_", "i", "d">>) =>
             IF MarkedOmitEmpty(data.decl[k])
             THEN (k \notin recorded) <=> ZeroValued(data.vals[k])
             ELSE k \in recorded
      /\ (\A k \in FieldIdx : Tagged(data.decl[k]) => ~NotOmitted(k))
           => update = EmptyM

C8_Witness ==
    /\ Returned /\ StructGiven
    /\ \E k, j \in FieldIdx :
         /\ data.decl[k] = [name |-> NameID, tag |-> TagNameOmit]
         /\ data.vals[k] = StrEmpty
         /\ k \notin recorded
         /\ data.decl[j] = [name |-> NameName, tag |-> TagName]
         /\ data.vals[j] = StrEmpty
         /\ j \in recorded

-----------------------------------------------------------------------------
(* C9 *)

\* C9: two invocations on the same input, not modified in between, return
\* equal mappings.
C9_SameInputSameResult ==
    (Returned /\ calls >= 2 /\ prev.same) => update = prev.res

C9_Witness ==
    /\ Returned /\ calls >= 2 /\ prev.same
    /\ StructGiven /\ data.ptr = 1
    /\ SetKey \in DOMAIN update
    /\ \E k \in FieldIdx : k \notin recorded

-----------------------------------------------------------------------------
(* C10 *)

\* C10: no step of BuildUpdateSet changes its input; a step inside an
\* invocation changes nothing of the caller's but the locals and the mapping
\* returned.
C10_InputUnchanged ==
    [][/\ (pc # "done" \/ pc' # "done") => data' = data
       /\ (pc \notin {"idle", "done"}) => UNCHANGED <<calls, prev, modified>>]_vars

C10_Witness ==
    /\ Returned
    /\ StructGiven /\ data.ptr = 1
    /\ Len(data.decl) = MaxFields
    /\ Cardinality(recorded) = MaxFields
    /\ \A k \in FieldIdx : data.vals[k] = StrA

-----------------------------------------------------------------------------
(* The caller invokes BuildUpdateSet on a struct, then on a variant of it:  *)
(* on its address, or on the struct without its unexported fields.          *)

PairTags == {IdKey, TagName, TagNameOmit, TagOmit}
PairValues == {StrEmpty, StrA}
PairDecls == [name : Names, tag : PairTags]

InitPair ==
    /\ StructInput(data, PairDecls, PairValues)
    /\ Idle

\* the indexes of the exported fields of d, in declaration order
ExportedIdx(d) ==
    SelectSeq([k \in 1..Len(d.decl) |-> k], LAMBDA k : Exported(d.decl[k]))

\* the struct d without its unexported fields
WithoutUnexported(d) ==
    [d EXCEPT !.decl = [k \in 1..Len(ExportedIdx(d)) |-> d.decl[ExportedIdx(d)[k]]],
              !.vals = [k \in 1..Len(ExportedIdx(d)) |-> d.vals[ExportedIdx(d)[k]]]]

\* BuildUpdateSet(s), then BuildUpdateSet(&s)
CallByPointer ==
    /\ pc = "done"
    /\ calls < MaxCalls
    /\ data.target = "Struct" /\ data.ptr = 0
    /\ data' = [data EXCEPT !.ptr = 1]
    /\ prev' = [res |-> update, same |-> FALSE, rel |-> "addr"]
    /\ UNCHANGED modified
    /\ EnterWith(data')

\* BuildUpdateSet(s), then BuildUpdateSet of s less its unexported fields
CallWithoutUnexported ==
    /\ pc = "done"
    /\ calls < MaxCalls
    /\ data.target = "Struct" /\ data.ptr <= 1
    /\ \E k \in 1..Len(data.decl) : ~Exported(data.decl[k])
    /\ data' = WithoutUnexported(data)
    /\ prev' = [res |-> update, same |-> FALSE, rel |-> "dropped"]
    /\ UNCHANGED modified
    /\ EnterWith(data')

NextPair == Next \/ CallByPointer \/ CallWithoutUnexported

SpecPair == InitPair /\ [][NextPair]_vars

-----------------------------------------------------------------------------
(* C11 *)

\* C11: an unexported field is never recorded, whatever its tag and value,
\* and the result is the one the struct yields without its unexported fields.
C11_UnexportedIgnored ==
    /\ \A k \in recorded : Exported(data.decl[k])
    /\ (Returned /\ prev.rel = "dropped") => update = prev.res

C11_Witness ==
    /\ Returned /\ prev.rel = "dropped"
    /\ calls = 2
    /\ Len(data.decl) = MaxFields - 1
    /\ SetKey \in DOMAIN update

-----------------------------------------------------------------------------
(* C14 *)

\* C14: BuildUpdateSet(&s) equals BuildUpdateSet(s) for every struct s.
C14_PointerLikeValue ==
    (Returned /\ prev.rel = "addr") => update = prev.res

C14_Witness ==
    /\ Returned /\ prev.rel = "addr"
    /\ data.ptr = 1
    /\ SetKey \in DOMAIN update
    /\ \E k \in FieldIdx : k \notin recorded

-----------------------------------------------------------------------------
(* BuildUpdateSet on the user record of the scenarios: an identity, a name  *)
(* tagged "username", a bio tagged "profile.bio,omitempty"                  *)

ScenarioNames == {NameID, NameName, NameBio}
ScenarioTags == {IdKey, TagUsername, TagBioOmit}
ScenarioValues == {StrEmpty, StrAlice, StrHello}
ScenarioDecls == [name : ScenarioNames, tag : ScenarioTags]

UserDecl ==
    <<[name |-> NameID, tag |-> IdKey],
      [name |-> NameName, tag |-> TagUsername],
      [name |-> NameBio, tag |-> TagBioOmit]>>

InitScenario ==
    /\ StructInputUpTo(data, ScenarioDecls, ScenarioValues, MaxFields + 1)
    /\ Idle

SpecScenario == InitScenario /\ [][Next]_vars

-----------------------------------------------------------------------------
(* C12 *)

KeyUsername == <<"u", "s", "e", "r", "n", "a", "m", "e">>
KeyProfileBio == <<"p", "r", "o", "f", "i", "l", "e", ".", "b", "i", "o">>

\* C12: the primary tag name is the key under "$set", verbatim and flat, and
\* the value stored is the field's; the user record yields
\* {"$set": {"username": "alice"}} with an empty bio and
\* {"$set": {"username": "alice", "profile.bio": "hello"}} with bio "hello".
C12_VerbatimFlatKeys ==
    (Returned /\ StructGiven) =>
      /\ DOMAIN SetOf(update) \subseteq {KeyUsername, KeyProfileBio}
      /\ \A k \in FieldIdx :
           Qualifies(k) =>
             /\ data.decl[k].tag = TagUsername
                  => KeyUsername \in DOMAIN SetOf(update)
             /\ data.decl[k].tag = TagBioOmit
                  => KeyProfileBio \in DOMAIN SetOf(update)
      /\ \A n \in DOMAIN SetOf(update) : SetOf(update)[n] = data.vals[LastFor(n)]
      /\ (data.decl = UserDecl /\ data.vals[1] # StrEmpty /\ data.vals[2] = StrAlice) =>
           /\ data.vals[3] = StrEmpty
                => update = (SetKey :> (KeyUsername :> StrAlice))
           /\ data.vals[3] = StrHello
                => update = (SetKey :> ((KeyUsername :> StrAlice)
                                          @@ (KeyProfileBio :> StrHello)))

C12_Witness ==
    /\ Returned /\ StructGiven
    /\ data.decl = UserDecl
    /\ data.vals = <<StrHello, StrAlice, StrHello>>
    /\ DOMAIN SetOf(update) = {KeyUsername, KeyProfileBio}

-----------------------------------------------------------------------------
(* BuildUpdateSet on records that carry creation and update times, tagged   *)
(* as BaseDocument tags them (document.go:21-22) or with omitempty           *)

StampValues == {TimeZero, TimeSet}
StampDecls ==
    {[name |-> NameCreatedAt, tag |-> TagCreatedAt],
     [name |-> NameUpdatedAt, tag |-> TagUpdatedAt],
     [name |-> NameUpdatedAt, tag |-> TagUpdatedAtOmit],
     [name |-> NameName, tag |-> TagName]}

InitStamp ==
    /\ StructInput(data, StampDecls, StampValues)
    /\ Idle

SpecStamp == InitStamp /\ [][Next]_vars

-----------------------------------------------------------------------------
(* C13 *)

IsStampField(d) == d.name \in {NameCreatedAt, NameUpdatedAt}

\* every entry under "$set" is the value of an input field of that name
NoEntryOfItsOwn ==
    \A n \in DOMAIN SetOf(update) :
      /\ \E k \in FieldIdx : Qualifies(k) /\ ExternalName(data.decl[k]) = n
      /\ SetOf(update)[n] = data.vals[LastFor(n)]

-----------------------------------------------------------------------------
(* BuildUpdateSet on records whose tags carry several modifiers *)

ModNames == {NameID, NameName, NameBio}
ModTags == {TagName, TagNameOmit, TagNameX, TagNameXOmit, DashTag, TagDashOmit}
ModValues == {StrEmpty, StrA}
ModDecls == [name : ModNames, tag : ModTags]

InitMods ==
    /\ StructInput(data, ModDecls, ModValues)
    /\ Idle

SpecMods == InitMods /\ [][Next]_vars

-----------------------------------------------------------------------------
(* C20 *)

\* C20: omitempty counts at any position among the modifiers, any other
\* modifier changes neither whether nor under which name the field is
\* recorded, and "-" excludes the field only when it is the whole tag.
C20_TagGrammar ==
    (Returned /\ StructGiven) =>
      /\ \A k \in FieldIdx :
           LET tag == data.decl[k].tag
               zero == data.vals[k] = StrEmpty
           IN  /\ tag \in {TagNameOmit, TagNameXOmit, TagDashOmit}
                    => (k \in recorded <=> ~zero)
               /\ tag \in {TagName, TagNameX} => k \in recorded
               /\ tag = DashTag => k \notin recorded
               /\ (k \in recorded /\ tag \in {TagName, TagNameOmit, TagNameX, TagNameXOmit})
                    => <<"n", "a", "m", "e">> \in DOMAIN SetOf(update)
               /\ (k \in recorded /\ tag = TagDashOmit)
                    => <<"-">> \in DOMAIN SetOf(update)
      /\ DOMAIN SetOf(update) \subseteq {<<"n", "a", "m", "e">>, <<"-">>}
      /\ \A n \in DOMAIN SetOf(update) : SetOf(update)[n] = data.vals[LastFor(n)]

C20_Witness ==
    /\ Returned /\ StructGiven
    /\ \E k, j \in FieldIdx :
         /\ data.decl[k].tag = TagNameXOmit
         /\ data.vals[k] = StrEmpty
         /\ k \notin recorded
         /\ data.decl[j].tag = TagDashOmit
         /\ data.vals[j] = StrA
         /\ DOMAIN SetOf(update) = {<<"-">>}

-----------------------------------------------------------------------------
(* Several callers inside BuildUpdateSet at once, each on its own record.    *)
(* callers.frames[p] holds the locals of caller p; callers.heap holds the    *)
(* maps made at line 60, and a frame's setFields refers to one of them.      *)

Callers == {1, 2}

ConcNames == {NameName, NameBio}
ConcTags == {TagName, TagNameOmit}
ConcValues == {StrEmpty, StrA}
ConcDecls == [name : ConcNames, tag : ConcTags]

ConcStructs ==
    UNION {{[ptr |-> q, target |-> "Struct", decl |-> dc, vals |-> vs] :
               dc \in {x \in [1..n -> ConcDecls] : DistinctNames(x)},
               vs \in [1..n -> ConcValues],
               q \in PtrDepths(n)} : n \in 0..MaxFields}

ConcInputs ==
    ConcStructs \cup {x \in NonStructs : x.target \in {"nil", "Int"} /\ x.ptr <= 1}

\* mutant: setFields is one package-level map
OwnSlot_Shared(p) == 1

\* line 60: setFields := bson.M{} makes a map of the invocation's own
OwnSlot(p) == p

\* lines 61-94 run to the end: the entries of the first n fields
RECURSIVE SetFieldsUpTo(_, _, _)
SetFieldsUpTo(v, t, n) ==
    IF n = 0 THEN EmptyM
    ELSE LET m == SetFieldsUpTo(v, t, n - 1)
             field == v.vals[n]
             fieldType == t.decl[n]
         IN  IF Records(field, fieldType)
             THEN Put(m, FieldName(Split(fieldType.tag, Comma), fieldType), field)
             ELSE m

\* lines 45-101, run without interruption
BuildUpdateSet(d) ==
    LET v == DerefValue(ValueOf(d))
        t == DerefType(ValueOf(d), TypeOf(d))
    IN  IF ReturnsEarly(v) THEN EmptyM
        ELSE Wrap(EmptyM, SetFieldsUpTo(v, t, NumField(v)))

NoData == [ptr |-> 0, target |-> "nil", decl |-> <<>>, vals |-> <<>>]

IdleFrame(d) ==
    [data |-> d, pc |-> "idle", setValue |-> NoValue, setType |-> NoType,
     i |-> 0, setFields |-> 0, update |-> EmptyM]

InitConc ==
    /\ data = NoData
    /\ SeqIdle
    /\ AuxIdle
    /\ pg = NoPg
    /\ ins = NoIns
    /\ updCall = NoUpd
    /\ \E d1, d2 \in ConcInputs :
         callers = [frames |-> <<IdleFrame(d1), IdleFrame(d2)>>,
                    heap |-> <<EmptyM, EmptyM>>]

SeqUnchanged ==
    UNCHANGED <<data, pc, setValue, setType, i, setFields, update, recorded,
                fault, calls, prev, modified>>

\* caller p's frame becomes f; nothing else changes but the heap, as given
Step(p, f, heap) ==
    /\ callers' = [frames |-> [callers.frames EXCEPT ![p] = f], heap |-> heap]
    /\ SeqUnchanged
    /\ UNCHANGED <<pg, ins, updCall, txn, idx>>

\* lines 45-48
CallerEnter(p) ==
    LET f == callers.frames[p] IN
    /\ f.pc = "idle"
    /\ Step(p, [f EXCEPT !.update = EmptyM,
                         !.setValue = ValueOf(f.data),
                         !.setType = TypeOf(f.data),
                         !.pc = "entry"],
            callers.heap)

\* lines 50-54
CallerDeref(p) ==
    LET f == callers.frames[p] IN
    /\ f.pc = "entry"
    /\ Step(p, [f EXCEPT !.setValue = DerefValue(f.setValue),
                         !.setType = DerefType(f.setValue, f.setType),
                         !.pc = "check"],
            callers.heap)

\* lines 56-60: return the empty update, or make setFields
CallerCheckKind(p) ==
    LET f == callers.frames[p] IN
    /\ f.pc = "check"
    /\ IF ReturnsEarly(f.setValue)
       THEN Step(p, [f EXCEPT !.pc = "done"], callers.heap)
       ELSE Step(p, [f EXCEPT !.pc = "loop", !.setFields = OwnSlot(p)],
                 [callers.heap EXCEPT ![OwnSlot(p)] = EmptyM])

\* lines 61-94: one iteration
CallerLoopStep(p) ==
    LET f == callers.frames[p] IN
    /\ f.pc = "loop"
    /\ f.i < NumField(f.setValue)
    /\ LET field == f.setValue.vals[f.i + 1]
           fieldType == f.setType.decl[f.i + 1]
       IN  Step(p, [f EXCEPT !.i = f.i + 1],
                IF Records(field, fieldType)
                THEN [callers.heap EXCEPT ![f.setFields] =
                         Put(@, FieldName(Split(fieldType.tag, Comma), fieldType),
                             field)]
                ELSE callers.heap)

\* lines 96-100
CallerFinish(p) ==
    LET f == callers.frames[p] IN
    /\ f.pc = "loop"
    /\ f.i >= NumField(f.setValue)
    /\ Step(p, [f EXCEPT !.update = Wrap(f.update, callers.heap[f.setFields]),
                         !.pc = "done"],
            callers.heap)

NextConc ==
    \E p \in Callers :
      \/ CallerEnter(p)
      \/ CallerDeref(p)
      \/ CallerCheckKind(p)
      \/ CallerLoopStep(p)
      \/ CallerFinish(p)

SpecConc == InitConc /\ [][NextConc]_vars

-----------------------------------------------------------------------------
(* C15 *)

\* C15: under every interleaving of the callers, an invocation that has
\* returned holds the mapping the same input yields when run alone, and two
\* invocations past line 60 never hold the same setFields map.
C15_IsolatedInvocations ==
    /\ \A p \in Callers :
         callers.frames[p].pc = "done" =>
           callers.frames[p].update = BuildUpdateSet(callers.frames[p].data)
    /\ \A p, q \in Callers :
         (/\ p # q
          /\ callers.frames[p].setFields # 0
          /\ callers.frames[q].setFields # 0)
           => callers.frames[p].setFields # callers.frames[q].setFields

C15_Witness ==
    /\ callers.frames[1].pc = "done"
    /\ callers.frames[2].pc = "loop"
    /\ callers.frames[2].i = 1
    /\ callers.frames[1].update # EmptyM
    /\ callers.heap[callers.frames[2].setFields] # EmptyM
    /\ callers.heap[1] # callers.heap[2]
    /\ callers.frames[1].data # callers.frames[2].data
    /\ callers.frames[1].update = BuildUpdateSet(callers.frames[1].data)

-----------------------------------------------------------------------------
(* FindWithPagination (Repository and Collection run the same statements).   *)
(* page, pageSize, skip and the counts are int64; the model keeps the        *)
(* two's-complement arithmetic at a width of IntBits bits.                   *)

IntBits == 5

RECURSIVE Pow2(_)
Pow2(n) == IF n = 0 THEN 1 ELSE 2 * Pow2(n - 1)

MaxInt == Pow2(IntBits - 1) - 1
MinInt == -Pow2(IntBits - 1)

\* the value an int64 expression keeps of the mathematical result x
WrapInt(x) == ((x - MinInt) % Pow2(IntBits)) + MinInt

\* Go's integer division truncates toward zero
Quo(a, b) ==
    IF (a >= 0) = (b >= 0)
    THEN (IF a >= 0 THEN a ELSE -a) \div (IF b >= 0 THEN b ELSE -b)
    ELSE -((IF a >= 0 THEN a ELSE -a) \div (IF b >= 0 THEN b ELSE -b))

\* line 93
SkipOf(page, pageSize) == WrapInt(WrapInt(page - 1) * pageSize)

\* line 121
TotalPageOf(total, pageSize) ==
    WrapInt(Quo(WrapInt(WrapInt(total + pageSize) - 1), pageSize))

\* mutant: the limit is not applied
PageLen_Unlimited(matching, skip, limit) ==
    IF skip >= matching THEN 0 ELSE matching - skip

\* lines 96-109: the number of documents the driver's Find yields for the
\* options of lines 97-98 (a limit of 0 is no limit, a negative one is taken
\* by its size)
PageLen(matching, skip, limit) ==
    LET rest == IF skip >= matching THEN 0 ELSE matching - skip
        most == IF limit < 0 THEN -limit ELSE limit
    IN  IF limit = 0 \/ rest <= most THEN rest ELSE most

NoAsk == [skip |-> 0, limit |-> 0]
NoResult == [Page |-> 0, PageSize |-> 0, Total |-> 0, TotalPage |-> 0]

InitPage ==
    /\ data = NoData
    /\ SeqIdle
    /\ AuxIdle
    /\ callers = NoCallers
    /\ ins = NoIns
    /\ updCall = NoUpd
    /\ \E page, pageSize \in 1..MaxInt :
         \E matching \in 0..MaxInt :
           pg = [pc |-> "entry", page |-> page, pageSize |-> pageSize,
                 matching |-> matching, skip |-> 0, asked |-> NoAsk,
                 returned |-> 0, atFind |-> 0, changed |-> FALSE,
                 total |-> 0, result |-> NoResult]

PgFrame == SeqUnchanged /\ UNCHANGED <<callers, ins, updCall, txn, idx>>

\* line 93
PgSkip ==
    /\ pg.pc = "entry"
    /\ pg' = [pg EXCEPT !.skip = SkipOf(pg.page, pg.pageSize), !.pc = "find"]
    /\ PgFrame

\* lines 96-105: the options are handed to the driver's Find, which reads
\* the page; the server refuses a negative skip
PgFind ==
    /\ pg.pc = "find"
    /\ IF pg.skip < 0
       THEN pg' = [pg EXCEPT !.asked = [skip |-> pg.skip, limit |-> pg.pageSize],
                             !.pc = "failed"]
       ELSE pg' = [pg EXCEPT !.asked = [skip |-> pg.skip, limit |-> pg.pageSize],
                             !.returned = PageLen(pg.matching, pg.skip, pg.pageSize),
                             !.atFind = pg.matching,
                             !.pc = "decode"]
    /\ PgFrame

\* lines 102-104, 107-109, 113-115: the driver reports an error
PgFail ==
    /\ pg.pc \in {"decode", "count", "return"}
    /\ pg' = [pg EXCEPT !.pc = "failed"]
    /\ PgFrame

\* lines 107-109: cursor.All
PgDecode ==
    /\ pg.pc = "decode"
    /\ pg' = [pg EXCEPT !.pc = "count"]
    /\ PgFrame

\* line 112: CountDocuments
PgCount ==
    /\ pg.pc = "count"
    /\ pg' = [pg EXCEPT !.total = pg.matching, !.pc = "return"]
    /\ PgFrame

\* lines 117-122; the division of line 121 panics on a pageSize of 0
PgReturn ==
    /\ pg.pc = "return"
    /\ IF pg.pageSize = 0
       THEN pg' = [pg EXCEPT !.pc = "panic"]
       ELSE pg' = [pg EXCEPT !.result =
                       [Page |-> pg.page, PageSize |-> pg.pageSize,
                        Total |-> pg.total,
                        TotalPage |-> TotalPageOf(pg.total, pg.pageSize)],
                             !.pc = "done"]
    /\ PgFrame

NextPage == PgSkip \/ PgFind \/ PgFail \/ PgDecode \/ PgCount \/ PgReturn

SpecPage == InitPage /\ [][NextPage]_vars

-----------------------------------------------------------------------------
(* C16 *)

\* the ceiling of total/pageSize, in the integers
CeilDiv(total, pageSize) == (total + pageSize - 1) \div pageSize

\* C16: for page >= 1 and pageSize >= 1 the driver is asked to skip
\* (page-1)*pageSize documents and to return at most pageSize, and on success
\* the result carries Page and PageSize as given, Total the number of
\* matching documents and TotalPage the ceiling of Total/PageSize.
C16_AsStated ==
    /\ pg.pc \in {"decode", "count", "return", "done"} =>
         /\ pg.asked.skip = (pg.page - 1) * pg.pageSize
         /\ pg.asked.limit = pg.pageSize
    /\ pg.pc = "done" =>
         /\ pg.result.Page = pg.page
         /\ pg.result.PageSize = pg.pageSize
         /\ pg.result.Total = pg.matching
         /\ pg.result.TotalPage = CeilDiv(pg.matching, pg.pageSize)

-----------------------------------------------------------------------------
(* Repository.InsertOne.  A document is its dynamic type and the three       *)
(* fields of the BaseDocument it holds (0 is the zero ObjectID, the zero     *)
(* time).                                                                    *)

DocTypes == {"*BaseDocument", "*User", "User", "bson.M"}

\* the types declared with an embedded BaseDocument, and BaseDocument itself
BuiltOnBaseDocument == {"*BaseDocument", "*User", "User"}

PresetIDs == {0, 1}
PresetTimes == {0, 1, 2}
NewObjectID == 9
Nows == {3, 4}

\* operations.go line 31: document.(*BaseDocument) holds for the dynamic type
\* *BaseDocument only; a type that embeds BaseDocument is another type
AssertsBaseDocument(doc) == doc.type = "*BaseDocument"

\* mutant: CreatedAt is assigned on every call
BeforeInsert_Overwrites(doc, now) ==
    [doc EXCEPT !.ID = IF doc.ID = 0 THEN NewObjectID ELSE doc.ID,
                !.CreatedAt = now,
                !.UpdatedAt = now]

\* document.go lines 50-60
BeforeInsert(doc, now) ==
    [doc EXCEPT !.ID = IF doc.ID = 0 THEN NewObjectID ELSE doc.ID,
                !.CreatedAt = IF doc.CreatedAt = 0 THEN now ELSE doc.CreatedAt,
                !.UpdatedAt = now]

NoDoc == [type |-> "none", ID |-> 0, CreatedAt |-> 0, UpdatedAt |-> 0]

InitInsert ==
    /\ data = NoData
    /\ SeqIdle
    /\ AuxIdle
    /\ callers = NoCallers
    /\ pg = NoPg
    /\ updCall = NoUpd
    /\ \E type \in DocTypes, id \in PresetIDs, c, u \in PresetTimes :
         ins = [pc |-> "entry",
                doc |-> [type |-> type, ID |-> id, CreatedAt |-> c,
                         UpdatedAt |-> u],
                hooked |-> FALSE,
                sent |-> NoDoc]

InsFrame == SeqUnchanged /\ UNCHANGED <<callers, pg, updCall, txn, idx>>

\* lines 31-33, the assertion holds: the hook runs on the document
InsHook ==
    /\ ins.pc = "entry"
    /\ AssertsBaseDocument(ins.doc)
    /\ \E now \in Nows :
         ins' = [ins EXCEPT !.doc = BeforeInsert(ins.doc, now),
                            !.hooked = TRUE,
                            !.pc = "insert"]
    /\ InsFrame

\* lines 31-33, the assertion fails: the body is skipped
InsNoHook ==
    /\ ins.pc = "entry"
    /\ ~AssertsBaseDocument(ins.doc)
    /\ ins' = [ins EXCEPT !.pc = "insert"]
    /\ InsFrame

\* line 35: the document goes to the driver
InsDriver ==
    /\ ins.pc = "insert"
    /\ ins' = [ins EXCEPT !.sent = ins.doc, !.pc = "sent"]
    /\ InsFrame

\* lines 36-39: the driver's answer
InsReturn ==
    /\ ins.pc = "sent"
    /\ \E ok \in BOOLEAN :
         ins' = [ins EXCEPT !.pc = IF ok THEN "done" ELSE "failed"]
    /\ InsFrame

NextInsert == InsHook \/ InsNoHook \/ InsDriver \/ InsReturn

SpecInsert == InitInsert /\ [][NextInsert]_vars

-----------------------------------------------------------------------------
(* C17 *)

\* C17: a document built on BaseDocument reaches the driver after the
\* BeforeInsert hook, with a non-zero ID, CreatedAt and UpdatedAt.
C17_AsStated ==
    (/\ ins.pc \in {"sent", "done", "failed"}
     /\ ins.doc.type \in BuiltOnBaseDocument)
      => /\ ins.hooked
         /\ ins.sent.ID # 0
         /\ ins.sent.CreatedAt # 0
         /\ ins.sent.UpdatedAt # 0

-----------------------------------------------------------------------------
(* UpdateOne, UpdateByID and UpdateMany of Repository and of Collection.     *)
(* An update is a bson.M: a map from operator names to values, a value being *)
(* nil, a bson.M (kind "M", with its entries m) or of another type (a        *)
(* bson.D).  updCall.update is the caller's map, which the callee shares.    *)

UpdatedAtKey == <<"u", "p", "d", "a", "t", "e", "d", "_", "a", "t">>
IncKey == "$inc"
CountKey == <<"c", "o", "u", "n", "t">>

NilValue == [kind |-> "nil", m |-> EmptyM]
MValue(m) == [kind |-> "M", m |-> m]
DValue(m) == [kind |-> "D", m |-> m]

NowTimes ==
    {[t |-> "Struct", isnil |-> FALSE, e |-> <<3, 0, 0>>],
     [t |-> "Struct", isnil |-> FALSE, e |-> <<4, 0, 0>>]}

\* the mapping BuildUpdateSet returns, as the bson.M handed on
AsUpdate(m) == [k \in DOMAIN m |-> MValue(m[k])]

\* update["$set"] == nil: no entry, or an entry holding nil
IsNilAt(upd, key) == key \notin DOMAIN upd \/ upd[key].kind = "nil"

\* mutant: "$set" is always replaced by a new map
EnsureSet_Always(upd) == Put(upd, SetKey, MValue(EmptyM))

\* lines 128-130
EnsureSet(upd) ==
    IF IsNilAt(upd, SetKey) THEN Put(upd, SetKey, MValue(EmptyM)) ELSE upd

\* mutant: the time is written under created_at
Stamp_CreatedAt(upd, now) ==
    [upd EXCEPT ![SetKey].m = Put(@, TagCreatedAt, now)]

\* line 131: update["$set"].(bson.M)["updated_at"] = time.Now()
Stamp(upd, now) ==
    [upd EXCEPT ![SetKey].m = Put(@, UpdatedAtKey, now)]

\* the driver method each operation ends in
DriverCall(op) == IF op = "UpdateMany" THEN "UpdateMany" ELSE "UpdateOne"

UpdReceivers == {"Repository", "Collection"}
UpdOps == {"UpdateOne", "UpdateByID", "UpdateMany"}

SetParts ==
    {EmptyM,
     SetKey :> NilValue,
     SetKey :> MValue(EmptyM),
     SetKey :> MValue(TagName :> StrA),
     SetKey :> MValue(UpdatedAtKey :> TimeSet),
     SetKey :> MValue((TagName :> StrA) @@ (UpdatedAtKey :> TimeSet)),
     SetKey :> DValue(TagName :> StrA)}

OtherParts == {EmptyM, IncKey :> MValue(CountKey :> StrA)}

LiteralUpdates == {a @@ b : a \in SetParts, b \in OtherParts}

InitUpdate ==
    /\ SeqIdle
    /\ AuxIdle
    /\ callers = NoCallers
    /\ pg = NoPg
    /\ ins = NoIns
    /\ \E recv \in UpdReceivers, op \in UpdOps :
         \E src \in {"built", "literal", "nilmap"} :
           \E u \in IF src = "built"
                    THEN {AsUpdate(BuildUpdateSet(d)) : d \in ConcInputs}
                    ELSE IF src = "literal" THEN LiteralUpdates ELSE {EmptyM} :
             /\ IF src = "built"
                THEN /\ data \in ConcInputs
                     /\ u = AsUpdate(BuildUpdateSet(data))
                ELSE data = NoData
             /\ updCall = [pc |-> IF op = "UpdateByID" THEN "byid" ELSE "ensure",
                           recv |-> recv, op |-> op,
                           built |-> (src = "built"),
                           nilMap |-> (src = "nilmap"),
                           given |-> u, update |-> u,
                           sent |-> EmptyM, sentBy |-> "none",
                           now |-> TimeZero]

UpdFrame == SeqUnchanged /\ UNCHANGED <<callers, pg, ins, txn, idx>>

\* UpdateByID: the filter is made of the id and UpdateOne is called
UpdByID ==
    /\ updCall.pc = "byid"
    /\ updCall' = [updCall EXCEPT !.pc = "ensure"]
    /\ UpdFrame

\* lines 128-130; assigning into a nil map panics
UpdEnsureSet ==
    /\ updCall.pc = "ensure"
    /\ IF updCall.nilMap /\ IsNilAt(updCall.update, SetKey)
       THEN updCall' = [updCall EXCEPT !.pc = "panic"]
       ELSE updCall' = [updCall EXCEPT !.update = EnsureSet(updCall.update),
                                       !.pc = "stamp"]
    /\ UpdFrame

\* line 131; the assertion panics on a "$set" that is no bson.M
UpdStamp ==
    /\ updCall.pc = "stamp"
    /\ IF updCall.update[SetKey].kind # "M"
       THEN updCall' = [updCall EXCEPT !.pc = "panic"]
       ELSE \E now \in NowTimes :
              updCall' = [updCall EXCEPT !.update = Stamp(updCall.update, now),
                                         !.now = now,
                                         !.pc = "driver"]
    /\ UpdFrame

\* line 133: the driver is called with the same map
UpdDriver ==
    /\ updCall.pc = "driver"
    /\ updCall' = [updCall EXCEPT !.sent = updCall.update,
                                  !.sentBy = DriverCall(updCall.op),
                                  !.pc = "sent"]
    /\ UpdFrame

\* lines 134-137
UpdReturn ==
    /\ updCall.pc = "sent"
    /\ \E ok \in BOOLEAN :
         updCall' = [updCall EXCEPT !.pc = IF ok THEN "done" ELSE "failed"]
    /\ UpdFrame

NextUpdate == UpdByID \/ UpdEnsureSet \/ UpdStamp \/ UpdDriver \/ UpdReturn

SpecUpdate == InitUpdate /\ [][NextUpdate]_vars

-----------------------------------------------------------------------------
(* C18, C19 *)

DriverCalled == updCall.pc \in {"sent", "done", "failed"}

\* the "$set" entries the caller supplied
GivenSet ==
    IF SetKey \in DOMAIN updCall.given /\ updCall.given[SetKey].kind = "M"
    THEN updCall.given[SetKey].m
    ELSE EmptyM

EmptyUpdatePassed ==
    /\ DriverCalled
    /\ updCall.built
    /\ updCall.given = EmptyM
    /\ updCall.op \in {"UpdateOne", "UpdateByID"}

\* C19 as stated: the empty update stays a no-op, the update issued sets no
\* field of the stored document.
C19_AsStated ==
    EmptyUpdatePassed =>
      \/ SetKey \notin DOMAIN updCall.sent
      \/ DOMAIN updCall.sent[SetKey].m = {}

\* C19: the empty mapping returned by BuildUpdateSet, passed to UpdateOne or
\* UpdateByID, is issued to the driver as a "$set" of updated_at alone, at the
\* current time; the caller's mapping is no longer empty.
C19_EmptyUpdateSetsUpdatedAt ==
    EmptyUpdatePassed =>
      /\ updCall.sent = (SetKey :> MValue(UpdatedAtKey :> updCall.now))
      /\ updCall.now \in NowTimes
      /\ updCall.update # EmptyM

C19_Witness ==
    /\ EmptyUpdatePassed
    /\ updCall.op = "UpdateByID"
    /\ data.target = "Struct"
    /\ Len(data.vals) > 0
    /\ UpdatedAtKey \in DOMAIN updCall.sent[SetKey].m

-----------------------------------------------------------------------------
(* BuildUpdateSet on records whose fields share an external name *)

SharedTags == {TagName, TagNameOmit, DashTag}
SharedValues == {StrEmpty, StrA, StrAlice}
SharedDecls == [name : Names, tag : SharedTags]

InitShared ==
    /\ StructInputUpTo(data, SharedDecls, SharedValues, MaxFields + 1)
    /\ Idle

SpecShared == InitShared /\ [][Next]_vars

-----------------------------------------------------------------------------
(* C27 *)

\* the qualifying fields among the first n that resolve to the name
QualifyingFor(name, n) ==
    {k \in 1..n : Qualifies(k) /\ ExternalName(data.decl[k]) = name}

Latest(S) == CHOOSE k \in S : \A j \in S : j <= k

\* C27: after each iteration of the loop, and in the mapping returned, a name
\* to which qualifying fields resolve has exactly one entry, holding the value
\* of the last of them in declaration order; a skipped field changes nothing.
C27_LastFieldWins ==
    (pc \in {"loop", "done"} /\ StructGiven) =>
      /\ \A name \in {ExternalName(data.decl[k]) : k \in FieldIdx} \cup DOMAIN setFields :
           IF QualifyingFor(name, i) = {}
           THEN name \notin DOMAIN setFields
           ELSE /\ name \in DOMAIN setFields
                /\ setFields[name] = data.vals[Latest(QualifyingFor(name, i))]
      /\ pc = "done" => SetOf(update) = setFields

C27_Witness ==
    /\ pc = "done"
    /\ StructGiven
    /\ Len(data.decl) = 3
    /\ Qualifies(1) /\ Qualifies(2) /\ ~Qualifies(3)
    /\ ExternalName(data.decl[3]) = ExternalName(data.decl[1])
    /\ ExternalName(data.decl[1]) = ExternalName(data.decl[2])
    /\ data.vals[1] # data.vals[2]
    /\ SetOf(update) = (<<"n", "a", "m", "e">> :> data.vals[2])

-----------------------------------------------------------------------------
(* The hooks of one BaseDocument, called in any order.  ins.doc is the       *)
(* document, ins.before the document as it was when the latest hook was      *)
(* called, ins.clock the latest reading of the clock; a reading is never     *)
(* below the one before it.                                                  *)

MaxClock == 4
MaxHooks == 4

\* document.go lines 62-65
BeforeUpdate(doc, now) == [doc EXCEPT !.UpdatedAt = now]

ZeroDocument == [type |-> "*BaseDocument", ID |-> 0, CreatedAt |-> 0, UpdatedAt |-> 0]

InitHooks ==
    /\ data = NoData
    /\ SeqIdle
    /\ AuxIdle
    /\ callers = NoCallers
    /\ pg = NoPg
    /\ updCall = NoUpd
    /\ ins = [pc |-> "hooks", doc |-> ZeroDocument, before |-> ZeroDocument,
              last |-> "none", clock |-> 1, hooks |-> 0]

\* time.Now() of a hook: any reading from the latest one on
Readings == ins.clock..MaxClock

CallBeforeInsert ==
    /\ ins.pc = "hooks"
    /\ ins.hooks < MaxHooks
    /\ \E now \in Readings :
         ins' = [ins EXCEPT !.doc = BeforeInsert(ins.doc, now),
                            !.before = ins.doc,
                            !.last = "BeforeInsert",
                            !.clock = now,
                            !.hooks = ins.hooks + 1]
    /\ InsFrame

CallBeforeUpdate ==
    /\ ins.pc = "hooks"
    /\ ins.hooks < MaxHooks
    /\ \E now \in Readings :
         ins' = [ins EXCEPT !.doc = BeforeUpdate(ins.doc, now),
                            !.before = ins.doc,
                            !.last = "BeforeUpdate",
                            !.clock = now,
                            !.hooks = ins.hooks + 1]
    /\ InsFrame

NextHooks == CallBeforeInsert \/ CallBeforeUpdate

SpecHooks == InitHooks /\ [][NextHooks]_vars

-----------------------------------------------------------------------------
(* C21 *)

\* C21: a hook changes ID and CreatedAt only from zero, and only
\* BeforeInsert does; UpdatedAt is the time of the latest hook call; after
\* BeforeInsert ID and CreatedAt are set and CreatedAt <= UpdatedAt.
C21_HookInvariants ==
    ins.last # "none" =>
      /\ ins.before.ID # 0 => ins.doc.ID = ins.before.ID
      /\ ins.before.CreatedAt # 0 => ins.doc.CreatedAt = ins.before.CreatedAt
      /\ ins.doc.UpdatedAt = ins.clock
      /\ ins.last = "BeforeUpdate" =>
           /\ ins.doc.ID = ins.before.ID
           /\ ins.doc.CreatedAt = ins.before.CreatedAt
      /\ ins.last = "BeforeInsert" =>
           /\ ins.doc.ID # 0
           /\ ins.doc.CreatedAt # 0
           /\ ins.before.CreatedAt = 0 => ins.doc.CreatedAt = ins.clock
           /\ ins.doc.CreatedAt <= ins.doc.UpdatedAt

C21_Witness ==
    /\ ins.last = "BeforeInsert"
    /\ ins.hooks = MaxHooks
    /\ ins.before.CreatedAt # 0
    /\ ins.before.UpdatedAt > ins.before.CreatedAt
    /\ ins.doc.UpdatedAt > ins.before.UpdatedAt
    /\ ins.doc.CreatedAt = ins.before.CreatedAt
    /\ ins.doc.ID = ins.before.ID

-----------------------------------------------------------------------------
(* Collection.InsertOne.  ins.log lists the calls made on the document and   *)
(* on the driver, ins.written tells whether the driver stored the document.  *)
(* "*Keyed" stands for a Document whose stored _id is a string.              *)

CollDocTypes == {"*User", "User", "*Keyed", "bson.M"}

\* document.(Document): the methods have pointer receivers, so a pointer to a
\* type that embeds BaseDocument has them and the value does not
ImplementsDocument(doc) == doc.type \in {"*BaseDocument", "*User", "*Keyed"}

DriverObjectID == 8

\* result.InsertedID: the document's _id, made by the driver when missing
InsertedIDOf(doc) ==
    IF doc.type = "*Keyed"
    THEN [kind |-> "String", v |-> 1]
    ELSE [kind |-> "ObjectID",
          v |-> IF doc.ID = 0 THEN DriverObjectID ELSE doc.ID]

NoInserted == [kind |-> "none", v |-> 0]

\* document.go lines 30-33
SetID(doc, id) == [doc EXCEPT !.ID = id]

InitCollInsert ==
    /\ data = NoData
    /\ SeqIdle
    /\ AuxIdle
    /\ callers = NoCallers
    /\ pg = NoPg
    /\ updCall = NoUpd
    /\ \E type \in CollDocTypes, id \in PresetIDs, c, u \in PresetTimes :
         ins = [pc |-> "entry",
                doc |-> [type |-> type, ID |-> id, CreatedAt |-> c,
                         UpdatedAt |-> u],
                log |-> <<>>,
                written |-> FALSE,
                driverFailed |-> FALSE,
                inserted |-> NoInserted,
                ret |-> "none"]

\* lines 137-139
CollHook ==
    /\ ins.pc = "entry"
    /\ IF ImplementsDocument(ins.doc)
       THEN \E now \in Nows :
              ins' = [ins EXCEPT !.doc = BeforeInsert(ins.doc, now),
                                 !.log = Append(ins.log, "BeforeInsert"),
                                 !.pc = "insert"]
       ELSE ins' = [ins EXCEPT !.pc = "insert"]
    /\ InsFrame

\* lines 141-144: the driver stores the document, or fails
CollDriver ==
    /\ ins.pc = "insert"
    /\ \/ ins' = [ins EXCEPT !.log = Append(ins.log, "InsertOne"),
                             !.written = TRUE,
                             !.inserted = InsertedIDOf(ins.doc),
                             !.pc = "setid"]
       \/ ins' = [ins EXCEPT !.log = Append(ins.log, "InsertOne"),
                             !.driverFailed = TRUE,
                             !.ret = "error",
                             !.pc = "returned"]
    /\ InsFrame

\* lines 147-154
CollSetID ==
    /\ ins.pc = "setid"
    /\ IF ImplementsDocument(ins.doc)
       THEN IF ins.inserted.kind = "ObjectID"
            THEN ins' = [ins EXCEPT !.doc = SetID(ins.doc, ins.inserted.v),
                                    !.log = Append(ins.log, "SetID"),
                                    !.ret = "result",
                                    !.pc = "returned"]
            ELSE ins' = [ins EXCEPT !.ret = "error", !.pc = "returned"]
       ELSE ins' = [ins EXCEPT !.ret = "result", !.pc = "returned"]
    /\ InsFrame

NextCollInsert == CollHook \/ CollDriver \/ CollSetID

SpecCollInsert == InitCollInsert /\ [][NextCollInsert]_vars

-----------------------------------------------------------------------------
(* C22 *)

\* C22: on a Document, InsertOne calls BeforeInsert, the driver's insert and
\* SetID in this order; on success GetID() is the inserted ID; when the
\* driver fails SetID is not called and an error is returned; and an error
\* is returned only when no document was written.
C22_AsStated ==
    (ins.pc = "returned" /\ ImplementsDocument(ins.doc)) =>
      /\ ins.ret = "result" =>
           /\ ins.log = <<"BeforeInsert", "InsertOne", "SetID">>
           /\ ins.doc.ID = ins.inserted.v
      /\ ins.driverFailed =>
           /\ ins.log = <<"BeforeInsert", "InsertOne">>
           /\ ins.ret = "error"
      /\ ins.ret = "error" => ~ins.written

-----------------------------------------------------------------------------
(* TransactionManager.WithTransaction, TransactionManager.WithSession and    *)
(* TransactionalRepository.WithTransaction.  txn.log lists what happened to  *)
(* the session and the callback; the driver may run the callback of a        *)
(* transaction again after a transient error.                                *)

MaxRuns == 2
MaxWrites == 2

TxnFuncs ==
    {"TransactionManager.WithTransaction", "TransactionManager.WithSession",
     "TransactionalRepository.WithTransaction"}

\* WithSession hands the callback to mongo.WithSession, the others to
\* session.WithTransaction
Transactional(fn) == fn # "TransactionManager.WithSession"

\* line 385: defer session.EndSession(ctx) runs nothing yet
AfterStart(log) == log

\* mutant: nothing was deferred
OnReturn_Nothing(log) == log

\* the deferred call of line 385, run when the function is left
OnReturn(log) == Append(log, "EndSession")

\* lines 398-402 and 413, 448: the error returned for the callback's outcome
ReturnFor(fn, err) ==
    IF err = "nil" THEN "nil"
    ELSE IF fn = "TransactionManager.WithTransaction"
         THEN "transaction failed"
         ELSE err

InitTxn ==
    /\ data = NoData
    /\ SeqIdle
    /\ callers = NoCallers
    /\ pg = NoPg
    /\ ins = NoIns
    /\ updCall = NoUpd
    /\ idx = NoIdx
    /\ \E fn \in TxnFuncs :
         txn = [pc |-> "entry", fn |-> fn, log |-> <<>>, runs |-> 0,
                pending |-> 0, stored |-> 0,
                err |-> "nil", ret |-> "none"]

TxnFrame == SeqUnchanged /\ UNCHANGED <<callers, pg, ins, updCall, idx>>

\* lines 381-385
TxnStart ==
    /\ txn.pc = "entry"
    /\ \/ txn' = [txn EXCEPT !.log = Append(txn.log, "StartSession failed"),
                             !.ret = "failed to start session",
                             !.pc = "returned"]
       \/ txn' = [txn EXCEPT !.log = AfterStart(Append(txn.log, "StartSession")),
                             !.pc = "run"]
    /\ TxnFrame

\* lines 394-396: the driver invokes the callback
TxnCallback ==
    /\ txn.pc = "run"
    /\ txn.runs < MaxRuns
    /\ txn' = [txn EXCEPT !.log = Append(txn.log, "callback begins"),
                          !.runs = txn.runs + 1,
                          !.pc = "callback"]
    /\ TxnFrame

\* the callback writes through the session: into the transaction, or
\* straight to the collection when there is none
TxnWrite ==
    /\ txn.pc = "callback"
    /\ txn.pending + txn.stored < MaxWrites
    /\ txn' = IF Transactional(txn.fn)
              THEN [txn EXCEPT !.pending = txn.pending + 1]
              ELSE [txn EXCEPT !.stored = txn.stored + 1]
    /\ TxnFrame

\* the callback returns nil or an error, or panics
TxnCallbackEnds ==
    /\ txn.pc = "callback"
    /\ \E out \in {"nil", "callback error", "panic"} :
         txn' = [txn EXCEPT !.log = Append(txn.log, "callback ends"),
                            !.err = out,
                            !.pc = IF out = "panic" THEN "unwind" ELSE "after"]
    /\ TxnFrame

\* the driver, after the callback: commit, abort, or another run after a
\* transient error; mongo.WithSession just passes the callback's error on
TxnDriver ==
    /\ txn.pc = "after"
    /\ IF Transactional(txn.fn)
       THEN \/ /\ txn.err = "nil"
               /\ \E c \in {"nil", "commit failed"} :
                    txn' = [txn EXCEPT !.log = Append(txn.log, "commit"),
                                       !.err = c,
                                       !.stored = IF c = "nil"
                                                  THEN txn.stored + txn.pending
                                                  ELSE txn.stored,
                                       !.pending = 0,
                                       !.pc = "leave"]
            \/ /\ txn.err # "nil"
               /\ txn' = [txn EXCEPT !.log = Append(txn.log, "abort"),
                                     !.pending = 0,
                                     !.pc = "leave"]
            \/ /\ txn.runs < MaxRuns
               /\ txn' = [txn EXCEPT !.log = Append(txn.log, "abort"),
                                     !.err = "nil",
                                     !.pending = 0,
                                     !.pc = "run"]
       ELSE txn' = [txn EXCEPT !.pc = "leave"]
    /\ TxnFrame

\* lines 398-402, 413, 448: the return, which runs the deferred call
TxnReturn ==
    /\ txn.pc = "leave"
    /\ txn' = [txn EXCEPT !.log = OnReturn(txn.log),
                          !.ret = ReturnFor(txn.fn, txn.err),
                          !.pc = "returned"]
    /\ TxnFrame

\* a panic of the callback leaves the function through the deferred call
TxnUnwind ==
    /\ txn.pc = "unwind"
    /\ txn' = [txn EXCEPT !.log = OnReturn(txn.log), !.pc = "panicked"]
    /\ TxnFrame

NextTxn ==
    TxnStart \/ TxnCallback \/ TxnWrite \/ TxnCallbackEnds \/ TxnDriver
      \/ TxnReturn \/ TxnUnwind

SpecTxn == InitTxn /\ [][NextTxn]_vars

-----------------------------------------------------------------------------
(* C23 *)

Positions(log, e) == {k \in 1..Len(log) : log[k] = e}

\* C23: when the session cannot be started the callback is never invoked and
\* an error is returned; otherwise the session is ended exactly once when the
\* function is left, after everything else, and at no time is the session
\* ended while a callback is running or still to run.
C23_SessionEndedOnce ==
    /\ Positions(txn.log, "StartSession failed") # {} =>
         /\ txn.log = <<"StartSession failed">>
         /\ txn.ret = "failed to start session"
    /\ (txn.pc \in {"returned", "panicked"}
          /\ Positions(txn.log, "StartSession") # {}) =>
         /\ Positions(txn.log, "EndSession") = {Len(txn.log)}
         /\ Cardinality(Positions(txn.log, "callback begins")) =
              Cardinality(Positions(txn.log, "callback ends"))
    /\ txn.pc \notin {"returned", "panicked", "none"} =>
         Positions(txn.log, "EndSession") = {}

C23_Witness ==
    /\ txn.pc = "returned"
    /\ txn.fn = "TransactionalRepository.WithTransaction"
    /\ txn.ret = "commit failed"
    /\ txn.runs = MaxRuns
    /\ txn.log[Len(txn.log)] = "EndSession"
    /\ txn.log[Len(txn.log) - 1] = "commit"

-----------------------------------------------------------------------------
(* DocumentIndexes.CreateAllDocumentIndexes.  idx.have tells, for each       *)
(* collection, whether none, part or all of its indexes exist; idx.tried     *)
(* lists the collections whose indexes the function asked for, idx.errs the  *)
(* outcome of each request.                                                  *)

\* lines 214, 219, 224: the collections, in the order of the statements
IndexSteps == <<"users", "articles", "categories">>

IndexStates == {"none", "part", "all"}

\* mutant: an error of a step is dropped and the next step runs
AfterStep_GoesOn(k, err) == IF k = Len(IndexSteps) THEN 0 ELSE k + 1

\* lines 214-228: the step to run after step k (0: return)
AfterStep(k, err) ==
    IF err # "nil" THEN 0 ELSE IF k = Len(IndexSteps) THEN 0 ELSE k + 1

\* lines 215, 220, 225, 228: the value returned so far
ReturnOf(ret, err) == IF err # "nil" THEN err ELSE ret

InitIndexes ==
    /\ data = NoData
    /\ SeqIdle
    /\ callers = NoCallers
    /\ pg = NoPg
    /\ ins = NoIns
    /\ updCall = NoUpd
    /\ txn = NoTxn
    /\ \E have \in [{"users", "articles", "categories"} -> IndexStates] :
         idx = [pc |-> "run", step |-> 1, have |-> have, had |-> have,
                tried |-> <<>>, errs |-> <<>>, ret |-> "nil"]

IdxFrame == SeqUnchanged /\ UNCHANGED <<callers, pg, ins, updCall, txn>>

\* one of the three statements: CreateMany on the collection succeeds, or
\* fails with none or part of the indexes made
IdxCreate ==
    /\ idx.pc = "run"
    /\ idx.step # 0
    /\ LET c == IndexSteps[idx.step] IN
         \E out \in {"all", "part", "same"} :
           LET err == IF out = "all" THEN "nil" ELSE "error of " \o c
               now == IF out = "same" THEN idx.have[c]
                      ELSE IF out = "part" /\ idx.have[c] = "all" THEN "all"
                      ELSE out
           IN  idx' = [idx EXCEPT !.have[c] = now,
                                  !.tried = Append(idx.tried, c),
                                  !.errs = Append(idx.errs, err),
                                  !.ret = ReturnOf(idx.ret, err),
                                  !.step = AfterStep(idx.step, err)]
    /\ IdxFrame

\* lines 215, 220, 225, 228
IdxReturn ==
    /\ idx.pc = "run"
    /\ idx.step = 0
    /\ idx' = [idx EXCEPT !.pc = "returned"]
    /\ IdxFrame

NextIndexes == IdxCreate \/ IdxReturn

SpecIndexes == InitIndexes /\ [][NextIndexes]_vars

-----------------------------------------------------------------------------
(* C24 *)

\* C24: the collections are tried in the order users, articles, categories,
\* up to and including the first that fails; its error is returned, the later
\* ones are left as they were, the earlier ones keep all their indexes; nil
\* is returned exactly when all three succeeded.
C24_StopsAtFirstFailure ==
    idx.pc = "returned" =>
      LET n == Len(idx.tried) IN
      /\ n >= 1
      /\ idx.tried = SubSeq(<<"users", "articles", "categories">>, 1, n)
      /\ \A k \in 1..(n - 1) :
           /\ idx.errs[k] = "nil"
           /\ idx.have[idx.tried[k]] = "all"
      /\ idx.ret = idx.errs[n]
      /\ idx.ret = "nil" <=>
           (n = 3 /\ \A k \in 1..3 : idx.errs[k] = "nil")
      /\ idx.ret # "nil" =>
           \A c \in {"users", "articles", "categories"} :
             (\A k \in 1..n : idx.tried[k] # c) => idx.have[c] = idx.had[c]

C24_Witness ==
    /\ idx.pc = "returned"
    /\ idx.tried = <<"users", "articles">>
    /\ idx.had = [c \in {"users", "articles", "categories"} |-> "none"]
    /\ idx.have["users"] = "all"
    /\ idx.have["articles"] = "part"
    /\ idx.have["categories"] = "none"
    /\ idx.ret = "error of articles"

-----------------------------------------------------------------------------
(* FindWithPagination while other clients insert and delete documents that   *)
(* match the filter.                                                         *)

MaxDocs == 3
RacePages == {1, 2}
RaceSizes == {1, 2}

InitPageRace ==
    /\ data = NoData
    /\ SeqIdle
    /\ AuxIdle
    /\ callers = NoCallers
    /\ ins = NoIns
    /\ updCall = NoUpd
    /\ \E page \in RacePages, pageSize \in RaceSizes, matching \in 0..MaxDocs :
         pg = [pc |-> "entry", page |-> page, pageSize |-> pageSize,
               matching |-> matching, skip |-> 0, asked |-> NoAsk,
               returned |-> 0, atFind |-> 0, changed |-> FALSE,
               total |-> 0, result |-> NoResult]

InFlight == pg.pc \in {"entry", "find", "decode", "count", "return"}

\* pg.changed: the matching documents changed after the page was read and
\* before they were counted
BetweenReads == pg.pc \in {"decode", "count"}

\* another client inserts a matching document
OtherInsert ==
    /\ InFlight
    /\ pg.matching < MaxDocs
    /\ pg' = [pg EXCEPT !.matching = pg.matching + 1,
                        !.changed = pg.changed \/ BetweenReads]
    /\ PgFrame

\* another client deletes a matching document
OtherDelete ==
    /\ InFlight
    /\ pg.matching > 0
    /\ pg' = [pg EXCEPT !.matching = pg.matching - 1,
                        !.changed = pg.changed \/ BetweenReads]
    /\ PgFrame

NextPageRace == NextPage \/ OtherInsert \/ OtherDelete

SpecPageRace == InitPageRace /\ [][NextPageRace]_vars

-----------------------------------------------------------------------------
(* C25 *)

\* C25 as stated: the page returned holds at most Total documents, and Total
\* is the number of matching documents when the page was read.
C25_AsStated ==
    pg.pc = "done" =>
      /\ pg.returned <= pg.result.Total
      /\ pg.result.Total = pg.atFind

\* C25: the page holds at most pageSize documents, all of them matching when
\* it was read; Total is the number counted afterwards, and it is the number
\* at the time of the page, and at least the size of the page, when no
\* matching document was inserted or deleted between the two calls.
C25_ConsistentWhenUndisturbed ==
    pg.pc = "done" =>
      /\ pg.returned <= pg.pageSize
      /\ pg.returned <= pg.atFind
      /\ pg.result.Total = pg.total
      /\ ~pg.changed =>
           /\ pg.result.Total = pg.atFind
           /\ pg.returned <= pg.result.Total

C25_Witness ==
    /\ pg.pc = "done"
    /\ pg.changed
    /\ pg.returned = 2
    /\ pg.result.Total = 0
    /\ pg.atFind > pg.result.Total

-----------------------------------------------------------------------------
(* FindWithPagination for any page and pageSize *)

AnyPages == -1..2
AnySizes == -1..2

InitPageAny ==
    /\ data = NoData
    /\ SeqIdle
    /\ AuxIdle
    /\ callers = NoCallers
    /\ ins = NoIns
    /\ updCall = NoUpd
    /\ \E page \in AnyPages, pageSize \in AnySizes, matching \in 0..MaxDocs :
         pg = [pc |-> "entry", page |-> page, pageSize |-> pageSize,
               matching |-> matching, skip |-> 0, asked |-> NoAsk,
               returned |-> 0, atFind |-> 0, changed |-> FALSE,
               total |-> 0, result |-> NoResult]

SpecPageAny == InitPageAny /\ [][NextPage]_vars

-----------------------------------------------------------------------------
(* C26 *)

\* C26: FindWithPagination ends with a result or an error, never with a
\* runtime fault, whatever page and pageSize are.
C26_AsStated == pg.pc # "panic"

====
